---- MODULE Spec2Model ----
(***************************************************************************)
(* Model of download_nifty50.py: the ticker resolver, the supplementary    *)
(* (NSE delivery) fetcher, the per-ticker download-and-merge function and  *)
(* the sequential batch loop of main().                                    *)
(*                                                                         *)
(* Three specifications share the module:                                  *)
(*   ResolverSpec  fetch_nifty50_tickers applied to every bounded response *)
(*   DownloadSpec  download_ticker_data applied to every bounded pair of   *)
(*                 price / supplementary responses                         *)
(*   Spec          one run of main()                                       *)
(***************************************************************************)
EXTENDS Integers, Sequences, FiniteSets, TLC

VARIABLES
    pc,         \* position of main(): "makedirs", "resolve", "session", "loop", "done", "aborted"
    fatal,      \* where an exception left main() uncaught ("none" while running)
    tickers,    \* main.tickers
    source,     \* main.source
    idx,        \* 1-based position of the for loop in tickers
    success,    \* main.success
    failed,     \* main.failed
    files,      \* output directory: ticker -> rows written by to_csv
    log,        \* history: what the providers answered for each processed ticker
    summary,    \* what the summary block printed, NoSummary before
    rResp,      \* ResolverSpec: the constituents-page response
    rOut,       \* ResolverSpec: what fetch_nifty50_tickers returned
    dPrice,     \* DownloadSpec: the price provider's response
    dSupp,      \* DownloadSpec: the delivery provider's response
    dOut        \* DownloadSpec: what download_ticker_data did

vars == <<pc, fatal, tickers, source, idx, success, failed, files, log, summary,
          rResp, rOut, dPrice, dSupp, dOut>>

runVars == <<pc, fatal, tickers, source, idx, success, failed, files, log, summary>>
resolverVars == <<rResp, rOut>>
downloadVars == <<dPrice, dSupp, dOut>>

----------------------------------------------------------------------------
(* Bounds                                                                  *)

MaxTables == 2      \* tables on the constituents page
MaxCells == 2       \* rows of a table's Symbol column
MaxDate == 3        \* trading days in the date range
MaxDeliv == 2       \* rows of a supplementary payload
Period == 2         \* the providers' answers repeat with this period over the ticker list

----------------------------------------------------------------------------
(* Generic helpers                                                         *)

Range(s) == {s[i] : i \in 1..Len(s)}

SeqsUpTo(S, n) == UNION {[1..k -> S] : k \in 0..n}

NoDuplicates(s) == \A i, j \in 1..Len(s) : s[i] = s[j] => i = j

\* s is t with some elements left out, order kept
RECURSIVE IsSubsequence(_, _)
IsSubsequence(s, t) ==
    IF s = <<>> THEN TRUE
    ELSE IF t = <<>> THEN FALSE
    ELSE IF Head(s) = Head(t) THEN IsSubsequence(Tail(s), Tail(t))
    ELSE IsSubsequence(s, Tail(t))

----------------------------------------------------------------------------
(* fetch_nifty50_tickers                                                   *)

\* A cell of the Symbol column: NaN, or text as a sequence of characters.
NaN == [nan |-> TRUE]

Text(chars) == [nan |-> FALSE, chars |-> chars]

Cells == {NaN, Text(<<"A">>), Text(<<" ", "A", " ">>), Text(<<"B">>)}

Headers == {"Symbol", " Symbol", "Company"}

\* A table of the page: the header of its first column and the cells of its
\* Symbol column (none when the header is not Symbol: the code never reads them).
Tables ==
    [header : {"Symbol"}, cells : SeqsUpTo(Cells, MaxCells)]
    \cup [header : Headers \ {"Symbol"}, cells : {<<>>}]

WikiResponses ==
    {[kind |-> "request_error", tables |-> <<>>],
     [kind |-> "http_error", tables |-> <<>>]}
    \cup [kind : {"ok"}, tables : SeqsUpTo(Tables, MaxTables)]

\* the pages a run of main is checked with: at most one table
RunWikiResponses ==
    {[kind |-> "request_error", tables |-> <<>>],
     [kind |-> "http_error", tables |-> <<>>]}
    \cup [kind : {"ok"}, tables : SeqsUpTo(Tables, 1)]

hardcoded ==
    <<"ADANIENT.NS", "ADANIPORTS.NS", "APOLLOHOSP.NS", "ASIANPAINT.NS",
      "AXISBANK.NS", "BAJAJ-AUTO.NS", "BAJFINANCE.NS", "BAJAJFINSV.NS",
      "BPCL.NS", "BHARTIARTL.NS", "BRITANNIA.NS", "CIPLA.NS", "COALINDIA.NS",
      "DIVISLAB.NS", "DRREDDY.NS", "EICHERMOT.NS", "GRASIM.NS", "HCLTECH.NS",
      "HDFCBANK.NS", "HDFCLIFE.NS", "HEROMOTOCO.NS", "HINDALCO.NS",
      "HINDUNILVR.NS", "ICICIBANK.NS", "ITC.NS", "INDUSINDBK.NS", "INFY.NS",
      "JSWSTEEL.NS", "KOTAKBANK.NS", "LTIM.NS", "LT.NS", "M&M.NS", "MARUTI.NS",
      "NESTLEIND.NS", "NTPC.NS", "ONGC.NS", "POWERGRID.NS", "RELIANCE.NS",
      "SBIN.NS", "SBILIFE.NS", "SUNPHARMA.NS", "TCS.NS", "TATACONSUM.NS",
      "TATAMOTORS.NS", "TATASTEEL.NS", "TECHM.NS", "TITAN.NS", "ULTRACEMCO.NS",
      "UPL.NS", "WIPRO.NS">>

\* str.strip(): drop leading and trailing whitespace
RECURSIVE lstrip(_)
lstrip(chars) ==
    IF chars # <<>> /\ Head(chars) = " " THEN lstrip(Tail(chars)) ELSE chars

RECURSIVE rstrip(_)
rstrip(chars) ==
    IF chars # <<>> /\ chars[Len(chars)] = " "
    THEN rstrip(SubSeq(chars, 1, Len(chars) - 1))
    ELSE chars

strip(chars) == rstrip(lstrip(chars))

\* the characters joined into one string
RECURSIVE Join(_)
Join(chars) == IF chars = <<>> THEN "" ELSE Head(chars) \o Join(Tail(chars))

\* Series.dropna()
dropna(cells) == SelectSeq(cells, LAMBDA c : ~c.nan)

\* Series.unique(): first occurrences, order kept
RECURSIVE unique(_)
unique(s) ==
    IF s = <<>> THEN <<>>
    ELSE LET init == unique(SubSeq(s, 1, Len(s) - 1))
             last == s[Len(s)]
         IN  IF last \in Range(init) THEN init ELSE Append(init, last)

\* next(tbl for tbl in tables if "Symbol" in tbl.columns ...): index of the
\* first table with a verbatim Symbol header, 0 when there is none (StopIteration)
FirstSymbolTable(tables) ==
    LET hits == {i \in 1..Len(tables) : tables[i].header = "Symbol"}
    IN  IF hits = {} THEN 0 ELSE CHOOSE i \in hits : \A j \in hits : i <= j

\* table["Symbol"].dropna().astype(str).str.strip().unique().tolist()
symbols_no_dedupe(table) ==
    LET kept == dropna(table.cells)
    IN  [i \in 1..Len(kept) |-> Join(strip(kept[i].chars))]

symbols_of(table) ==
    LET kept == dropna(table.cells)
    IN  unique([i \in 1..Len(kept) |-> Join(strip(kept[i].chars))])

\* the try block: raised, or the tickers it returns
primary_no_empty_check(resp) ==
    IF resp.kind # "ok" \/ resp.tables = <<>> \/ FirstSymbolTable(resp.tables) = 0
    THEN [raised |-> TRUE, tickers |-> <<>>]
    ELSE LET symbols == symbols_of(resp.tables[FirstSymbolTable(resp.tables)])
         IN  [raised |-> FALSE,
              tickers |-> [i \in 1..Len(symbols) |-> symbols[i] \o ".NS"]]

primary(resp) ==
    IF resp.kind = "request_error" THEN [raised |-> TRUE, tickers |-> <<>>]   \* requests.get raises
    ELSE IF resp.kind = "http_error" THEN [raised |-> TRUE, tickers |-> <<>>] \* raise_for_status
    ELSE IF resp.tables = <<>> THEN [raised |-> TRUE, tickers |-> <<>>]       \* read_html: no tables found
    ELSE IF FirstSymbolTable(resp.tables) = 0
         THEN [raised |-> TRUE, tickers |-> <<>>]                             \* StopIteration
    ELSE LET symbols == symbols_of(resp.tables[FirstSymbolTable(resp.tables)])
             tks == [i \in 1..Len(symbols) |-> symbols[i] \o ".NS"]
         IN  IF tks = <<>> THEN [raised |-> TRUE, tickers |-> <<>>]           \* ValueError
             ELSE [raised |-> FALSE, tickers |-> tks]

fetch_nifty50_tickers(resp) ==
    IF primary(resp).raised
    THEN [tickers |-> hardcoded, source |-> "hardcoded"]
    ELSE [tickers |-> primary(resp).tickers, source |-> "wikipedia"]

----------------------------------------------------------------------------
(* Frames                                                                  *)

Dates == 1..MaxDate

\* A value of a delivery column: the missing marker, a number, or text that
\* is no number (what astype cannot convert).
NA == [kind |-> "NA", v |-> 0]

Num(n) == [kind |-> "num", v |-> n]

NonNumeric == [kind |-> "text", v |-> 0]

\* the OHLCV columns of a daily bar
Bars ==
    {[Open |-> 10, High |-> 12, Low |-> 9, Close |-> 11, AdjClose |-> 11, Volume |-> 100],
     [Open |-> 20, High |-> 20, Low |-> 20, Close |-> 20, AdjClose |-> 19, Volume |-> 0]}

PriceRow(d, bar) ==
    [Date |-> d, Open |-> bar.Open, High |-> bar.High, Low |-> bar.Low,
     Close |-> bar.Close, AdjClose |-> bar.AdjClose, Volume |-> bar.Volume]

PriceRows == {PriceRow(d, bar) : d \in Dates, bar \in Bars}

\* what yf.download returns: one row per trading day, dates ascending
PriceFrames ==
    {f \in SeqsUpTo(PriceRows, MaxDate) :
        \A i \in 1..(Len(f) - 1) : f[i].Date < f[i + 1].Date}

PriceResponses ==
    {[kind |-> "raise", rows |-> <<>>]} \cup [kind : {"ok"}, rows : PriceFrames]

\* the three delivery figures the provider reports for a day
DeliveryValues ==
    {[qty |-> Num(0), perc |-> Num(0), oi |-> Num(0)],
     [qty |-> Num(7), perc |-> Num(50), oi |-> Num(3)],
     [qty |-> NonNumeric, perc |-> Num(50), oi |-> Num(3)]}

\* a record of payload["data"], keyed as after the rename
DeliveryRow(d, val) ==
    [Date |-> d, DeliverableVolume |-> val.qty, DeliverablePct |-> val.perc, OI |-> val.oi]

DeliveryRows == {DeliveryRow(d, val) : d \in Dates, val \in DeliveryValues}

DeliveryFrames == SeqsUpTo(DeliveryRows, MaxDeliv)

\* What the delivery endpoint answers.  has_data: the payload has a "data"
\* key; schema_ok: its records carry CH_TIMESTAMP (parseable) and the three CH_ fields.
SuppResponse(status, has_data, schema_ok, records) ==
    [status |-> status, has_data |-> has_data, schema_ok |-> schema_ok, records |-> records]

SuppResponsesOver(frames) ==
    {SuppResponse(s, FALSE, TRUE, <<>>) :
        s \in {"connection_error", "http_error", "invalid_json", "ok"}}
    \cup {SuppResponse("ok", TRUE, ok, recs) : ok \in BOOLEAN, recs \in frames}

SuppResponses == SuppResponsesOver(DeliveryFrames)

----------------------------------------------------------------------------
(* fetch_nse_delivery_data                                                 *)

fetch_nse_delivery_data(resp) ==
    IF resp.status = "connection_error" THEN [raised |-> TRUE, frame |-> <<>>]   \* session.get
    ELSE IF resp.status = "http_error" THEN [raised |-> TRUE, frame |-> <<>>]    \* raise_for_status
    ELSE IF resp.status = "invalid_json" THEN [raised |-> TRUE, frame |-> <<>>]  \* response.json
    ELSE LET records == IF resp.has_data THEN resp.records ELSE <<>>             \* payload.get("data", [])
         IN  IF records = <<>> THEN [raised |-> FALSE, frame |-> <<>>]
             ELSE IF ~resp.schema_ok THEN [raised |-> TRUE, frame |-> <<>>]      \* KeyError / ValueError
             ELSE [raised |-> FALSE, frame |-> records]

----------------------------------------------------------------------------
(* download_ticker_data                                                    *)

Extend(row, qty, perc, oi) ==
    [Date |-> row.Date, Open |-> row.Open, High |-> row.High, Low |-> row.Low,
     Close |-> row.Close, AdjClose |-> row.AdjClose, Volume |-> row.Volume,
     DeliverableVolume |-> qty, DeliverablePct |-> perc, OI |-> oi]

\* data[col] = pd.NA for the three delivery columns
fill_missing(data) == [i \in 1..Len(data) |-> Extend(data[i], NA, NA, NA)]

\* an inner join: price rows without a delivery row are dropped
RECURSIVE merge_inner(_, _)
merge_inner(data, nse_data) ==
    IF data = <<>> THEN <<>>
    ELSE LET row == Head(data)
             hits == SelectSeq(nse_data, LAMBDA r : r.Date = row.Date)
         IN  [i \in 1..Len(hits) |->
                 Extend(row, hits[i].DeliverableVolume, hits[i].DeliverablePct, hits[i].OI)]
             \o merge_inner(Tail(data), nse_data)

\* data.merge(nse_data, on="Date", how="left"): the left rows in their order,
\* each once per right row of its date, or once with missing values
RECURSIVE merge(_, _)
merge(data, nse_data) ==
    IF data = <<>> THEN <<>>
    ELSE LET row == Head(data)
             hits == SelectSeq(nse_data, LAMBDA r : r.Date = row.Date)
             joined == IF hits = <<>>
                       THEN <<Extend(row, NA, NA, NA)>>
                       ELSE [i \in 1..Len(hits) |->
                               Extend(row, hits[i].DeliverableVolume,
                                      hits[i].DeliverablePct, hits[i].OI)]
         IN  joined \o merge(Tail(data), nse_data)

\* astype("Int64") / astype("Float64") of the three columns raises on text
astype_raises(data) ==
    \E i \in 1..Len(data) :
        \/ data[i].DeliverableVolume.kind = "text"
        \/ data[i].DeliverablePct.kind = "text"
        \/ data[i].OI.kind = "text"

\* the supplementary fetch outside any try: its exception leaves the function
download_ticker_data_no_try(price, supp) ==
    IF price.kind = "raise" THEN [raised |-> TRUE, data |-> <<>>, supp_called |-> FALSE]
    ELSE IF price.rows = <<>> THEN [raised |-> FALSE, data |-> <<>>, supp_called |-> FALSE]
    ELSE LET nse == fetch_nse_delivery_data(supp)
         IN  IF nse.raised THEN [raised |-> TRUE, data |-> <<>>, supp_called |-> TRUE]
             ELSE IF nse.frame = <<>>
                  THEN [raised |-> FALSE, data |-> fill_missing(price.rows), supp_called |-> TRUE]
             ELSE IF astype_raises(merge(price.rows, nse.frame))
                  THEN [raised |-> TRUE, data |-> <<>>, supp_called |-> TRUE]
             ELSE [raised |-> FALSE, data |-> merge(price.rows, nse.frame), supp_called |-> TRUE]

\* raised: an exception left the function; data: the returned frame;
\* supp_called: the supplementary fetch was attempted
download_ticker_data(price, supp) ==
    IF price.kind = "raise" THEN [raised |-> TRUE, data |-> <<>>, supp_called |-> FALSE]
    ELSE IF price.rows = <<>> THEN [raised |-> FALSE, data |-> <<>>, supp_called |-> FALSE]
    ELSE LET nse == fetch_nse_delivery_data(supp)
             nse_data == IF nse.raised THEN <<>> ELSE nse.frame
         IN  IF nse_data = <<>>
             THEN [raised |-> FALSE, data |-> fill_missing(price.rows), supp_called |-> TRUE]
             ELSE IF astype_raises(merge(price.rows, nse_data))
                  THEN [raised |-> TRUE, data |-> <<>>, supp_called |-> TRUE]
             ELSE [raised |-> FALSE, data |-> merge(price.rows, nse_data), supp_called |-> TRUE]

----------------------------------------------------------------------------
(* main: what the providers may answer for one ticker                      *)

PriceSample ==
    <<PriceRow(1, [Open |-> 10, High |-> 12, Low |-> 9, Close |-> 11, AdjClose |-> 11, Volume |-> 100]),
      PriceRow(2, [Open |-> 20, High |-> 20, Low |-> 20, Close |-> 20, AdjClose |-> 19, Volume |-> 0]),
      PriceRow(3, [Open |-> 10, High |-> 12, Low |-> 9, Close |-> 11, AdjClose |-> 11, Volume |-> 100])>>

DeliverySample == <<DeliveryRow(2, [qty |-> Num(7), perc |-> Num(50), oi |-> Num(3)])>>

DeliveryBadSample == <<DeliveryRow(2, [qty |-> NonNumeric, perc |-> Num(50), oi |-> Num(3)])>>

\* what the price provider does for a ticker of the run
PriceKinds == {"raise", "empty", "rows"}

RunPrice(kind) ==
    CASE kind = "raise" -> [kind |-> "raise", rows |-> <<>>]
      [] kind = "empty" -> [kind |-> "ok", rows |-> <<>>]
      [] kind = "rows" -> [kind |-> "ok", rows |-> PriceSample]

\* what the delivery endpoint does for a ticker of the run
SuppKinds ==
    {"connection_error", "http_error", "invalid_json", "data_absent", "data_empty",
     "missing_field", "records", "bad_records"}

RunSupp(kind) ==
    CASE kind \in {"connection_error", "http_error", "invalid_json"} ->
            SuppResponse(kind, FALSE, TRUE, <<>>)
      [] kind = "data_absent" -> SuppResponse("ok", FALSE, TRUE, <<>>)
      [] kind = "data_empty" -> SuppResponse("ok", TRUE, TRUE, <<>>)
      [] kind = "missing_field" -> SuppResponse("ok", TRUE, FALSE, DeliverySample)
      [] kind = "records" -> SuppResponse("ok", TRUE, TRUE, DeliverySample)
      [] kind = "bad_records" -> SuppResponse("ok", TRUE, TRUE, DeliveryBadSample)

\* the responses behind one ticker's answers
Answers(o) == [price |-> RunPrice(o.price), supp |-> RunSupp(o.supp), write |-> o.write]

\* One ticker's answers: the price response, the delivery response and
\* whether to_csv succeeds.  Answers the code never asks for are fixed, and a
\* failing write is paired with one successful and one failed delivery fetch.
Outcomes ==
    {o \in [price : PriceKinds, supp : SuppKinds, write : {"ok", "oserror"}] :
        LET r == download_ticker_data(RunPrice(o.price), RunSupp(o.supp))
        IN  /\ ~r.supp_called => o.supp = "data_absent"
            /\ (r.raised \/ r.data = <<>>) => o.write = "ok"
            /\ o.write = "oserror" => o.supp \in {"records", "connection_error"}}

----------------------------------------------------------------------------
(* main: the body of the for loop (try / except Exception)                 *)

\* the state after the body: the counters, the directory, how the body
\* ended, and whether an exception left the loop
After(status, s, f, fs) ==
    [status |-> status, success |-> s, failed |-> f, files |-> fs,
     uncaught |-> status = "uncaught"]

\* no except clause around the download
loop_body_no_catch(s, f, fs, ticker, o) ==
    LET r == download_ticker_data(o.price, o.supp)
    IN  IF r.raised THEN After("uncaught", s, f, fs)
        ELSE IF r.data = <<>> THEN After("no_data", s, Append(f, ticker), fs)
        ELSE IF o.write = "oserror" THEN After("failed", s, Append(f, ticker), fs)
        ELSE After("saved", s + 1, f, (ticker :> r.data) @@ fs)

\* no data.empty test: an empty frame is written like any other
loop_body_no_empty_check(s, f, fs, ticker, o) ==
    LET r == download_ticker_data(o.price, o.supp)
    IN  IF r.raised THEN After("failed", s, Append(f, ticker), fs)
        ELSE IF o.write = "oserror" THEN After("failed", s, Append(f, ticker), fs)
        ELSE After("saved", s + 1, f, (ticker :> r.data) @@ fs)

\* to_csv outside the try
loop_body_write_uncaught(s, f, fs, ticker, o) ==
    LET r == download_ticker_data(o.price, o.supp)
    IN  IF r.raised THEN After("failed", s, Append(f, ticker), fs)
        ELSE IF r.data = <<>> THEN After("no_data", s, Append(f, ticker), fs)
        ELSE IF o.write = "oserror" THEN After("uncaught", s, f, fs)
        ELSE After("saved", s + 1, f, (ticker :> r.data) @@ fs)

\* success counted before to_csv is called
loop_body_count_first(s, f, fs, ticker, o) ==
    LET r == download_ticker_data(o.price, o.supp)
    IN  IF r.raised THEN After("failed", s, Append(f, ticker), fs)
        ELSE IF r.data = <<>> THEN After("no_data", s, Append(f, ticker), fs)
        ELSE IF o.write = "oserror" THEN After("failed", s + 1, Append(f, ticker), fs)
        ELSE After("saved", s + 1, f, (ticker :> r.data) @@ fs)

loop_body(s, f, fs, ticker, o) ==
    LET r == download_ticker_data(o.price, o.supp)
    IN  IF r.raised
        THEN After("failed", s, Append(f, ticker), fs)          \* except Exception
        ELSE IF r.data = <<>>
        THEN After("no_data", s, Append(f, ticker), fs)         \* if data.empty
        ELSE IF o.write = "oserror"
        THEN After("failed", s, Append(f, ticker), fs)          \* to_csv raises: except Exception
        ELSE After("saved", s + 1, f, (ticker :> r.data) @@ fs)

----------------------------------------------------------------------------
(* main                                                                    *)

NoFiles == [t \in {} |-> <<>>]

RunInit ==
    /\ pc = "makedirs"
    /\ fatal = "none"
    /\ tickers = <<>>
    /\ source = "none"
    /\ idx = 1
    /\ success = 0
    /\ failed = <<>>
    /\ files = NoFiles
    /\ log = <<>>
    /\ summary = <<>>

ResolverIdle ==
    /\ rResp = [kind |-> "request_error", tables |-> <<>>]
    /\ rOut = <<>>

DownloadIdle ==
    /\ dPrice = [kind |-> "raise", rows |-> <<>>]
    /\ dSupp = SuppResponse("ok", FALSE, TRUE, <<>>)
    /\ dOut = <<>>

Init == RunInit /\ ResolverIdle /\ DownloadIdle

\* os.makedirs(OUTPUT_DIR, exist_ok=True)
MakeDirs ==
    /\ pc = "makedirs"
    /\ \E ok \in BOOLEAN :
        IF ok THEN pc' = "resolve" /\ fatal' = fatal
        ELSE pc' = "aborted" /\ fatal' = "makedirs"
    /\ UNCHANGED <<tickers, source, idx, success, failed, files, log, summary>>
    /\ UNCHANGED <<resolverVars, downloadVars>>

\* tickers, source = fetch_nifty50_tickers()
FetchTickers ==
    /\ pc = "resolve"
    /\ \E resp \in RunWikiResponses :
        /\ tickers' = fetch_nifty50_tickers(resp).tickers
        /\ source' = fetch_nifty50_tickers(resp).source
    /\ pc' = "session"
    /\ UNCHANGED <<fatal, idx, success, failed, files, log, summary>>
    /\ UNCHANGED <<resolverVars, downloadVars>>

\* success = 0; failed = []; nse_session = build_nse_session()
\* the warm-up GET of build_nse_session is inside no try
BuildSession ==
    /\ pc = "session"
    /\ \E ok \in BOOLEAN :
        IF ok THEN pc' = "loop" /\ fatal' = fatal
        ELSE pc' = "aborted" /\ fatal' = "session"
    /\ success' = 0
    /\ failed' = <<>>
    /\ idx' = 1
    /\ UNCHANGED <<tickers, source, files, log, summary>>
    /\ UNCHANGED <<resolverVars, downloadVars>>

\* one iteration of for ticker in tickers
ProcessTicker ==
    /\ pc = "loop"
    /\ idx <= Len(tickers)
    /\ \E o \in Outcomes :
        /\ idx > Period => o = log[idx - Period].o
        /\ LET ticker == tickers[idx]
               r == download_ticker_data(RunPrice(o.price), RunSupp(o.supp))
               a == loop_body(success, failed, files, ticker, Answers(o))
           IN  /\ success' = a.success
               /\ failed' = a.failed
               /\ files' = a.files
               /\ log' = Append(log, [ticker |-> ticker, o |-> o, status |-> a.status,
                                      raised |-> r.raised, rows |-> Len(r.data),
                                      supp_called |-> r.supp_called])
               /\ IF a.uncaught
                  THEN pc' = "aborted" /\ fatal' = "loop"
                  ELSE pc' = pc /\ fatal' = fatal
    /\ idx' = idx + 1
    /\ UNCHANGED <<tickers, source, summary>>
    /\ UNCHANGED <<resolverVars, downloadVars>>

\* the summary block after the loop
PrintSummary ==
    /\ pc = "loop"
    /\ idx > Len(tickers)
    /\ summary' = <<[success |-> success, failed_count |-> Len(failed), failed_list |-> failed]>>
    /\ pc' = "done"
    /\ UNCHANGED <<fatal, tickers, source, idx, success, failed, files, log>>
    /\ UNCHANGED <<resolverVars, downloadVars>>

Next == MakeDirs \/ FetchTickers \/ BuildSession \/ ProcessTicker \/ PrintSummary

Spec == Init /\ [][Next]_vars

----------------------------------------------------------------------------
(* fetch_nifty50_tickers on its own                                        *)

ResolverInit ==
    /\ RunInit
    /\ DownloadIdle
    /\ rResp \in WikiResponses
    /\ rOut = <<>>

Resolve ==
    /\ rOut = <<>>
    /\ rOut' = <<fetch_nifty50_tickers(rResp)>>
    /\ UNCHANGED <<rResp, runVars, downloadVars>>

ResolverNext == Resolve

ResolverSpec == ResolverInit /\ [][ResolverNext]_vars

----------------------------------------------------------------------------
(* download_ticker_data on its own                                         *)

DownloadInit ==
    /\ RunInit
    /\ ResolverIdle
    /\ dPrice \in PriceResponses
    /\ dSupp \in SuppResponses
    /\ dOut = <<>>

Download ==
    /\ dOut = <<>>
    /\ dOut' = <<download_ticker_data(dPrice, dSupp)>>
    /\ UNCHANGED <<dPrice, dSupp, runVars, resolverVars>>

DownloadNext == Download

DownloadSpec == DownloadInit /\ [][DownloadNext]_vars

----------------------------------------------------------------------------
(* Properties of the ticker loop (Spec)                                    *)

Processed == 1..Len(log)

PriceEmpty(e) == e.o.price = "empty"

\* processing the ticker raised an exception or found no price data
TickerFailed(e) == e.raised \/ PriceEmpty(e)

\* the supplementary fetch was attempted and raised
SuppFailed(e) ==
    /\ e.o.price = "rows"
    /\ e.o.supp \in {"connection_error", "http_error", "invalid_json", "missing_field"}

\* to_csv was called and raised
WriteFailed(e) == ~e.raised /\ e.rows > 0 /\ e.o.write = "oserror"

AllMissing(rows) ==
    \A k \in 1..Len(rows) :
        rows[k].DeliverableVolume = NA /\ rows[k].DeliverablePct = NA /\ rows[k].OI = NA

\* C1: a ticker whose processing raises or yields no price data is caught and
\* appended to the failed list, no exception leaves the loop, the tickers are
\* processed in list order, and the summary comes after every ticker of the list.
C1_FailureIsolated ==
    /\ fatal # "loop"
    /\ \A i \in Processed :
        /\ log[i].ticker = tickers[i]
        /\ TickerFailed(log[i]) =>
            /\ tickers[i] \in Range(failed)
            /\ pc \in {"loop", "done"}
            /\ pc = "loop" => idx = Len(log) + 1
            /\ pc = "done" => Len(log) = Len(tickers)

C1_Witness ==
    /\ pc = "done"
    /\ \E i \in Processed :
        /\ log[i].raised
        /\ i < Len(log)
        /\ log[i + 1].status = "saved"

\* C2: a ticker whose price fetch is empty gets no output file, the
\* supplementary fetch is not attempted for it, and it is in the failed list
\* (and in the failed list the summary prints).
C2_EmptyPriceNoFile ==
    \A i \in Processed :
        PriceEmpty(log[i]) =>
            /\ tickers[i] \notin DOMAIN files
            /\ ~log[i].supp_called
            /\ log[i].status = "no_data"
            /\ tickers[i] \in Range(failed)
            /\ summary # <<>> => tickers[i] \in Range(summary[1].failed_list)

C2_Witness ==
    /\ summary # <<>>
    /\ \E i \in Processed : PriceEmpty(log[i])
    /\ \E i \in Processed : log[i].status = "saved"

\* C3: a ticker with price data whose supplementary fetch raised (connection
\* error, HTTP status, invalid JSON, missing field) is, when its write goes
\* through, saved and not failed, and every row of its file has the missing
\* marker in the three delivery columns.
C3_SuppFailureNotFatal ==
    \A i \in Processed :
        (SuppFailed(log[i]) /\ log[i].o.write = "ok") =>
            /\ log[i].status = "saved"
            /\ tickers[i] \notin Range(failed)
            /\ tickers[i] \in DOMAIN files
            /\ Len(files[tickers[i]]) = Len(PriceSample)
            /\ AllMissing(files[tickers[i]])

\* a connection error for one ticker and a payload without the fields for
\* another, both saved
C3_Witness ==
    /\ pc = "done"
    /\ \E i \in Processed :
        log[i].o.supp = "connection_error" /\ SuppFailed(log[i]) /\ log[i].status = "saved"
    /\ \E i \in Processed :
        log[i].o.supp = "missing_field" /\ SuppFailed(log[i]) /\ log[i].status = "saved"

\* C4 as claimed: a failed write is not caught: it ends the run, the ticker is
\* not recorded as failed and no summary is printed.
C4_WriteFailureFatal ==
    \A i \in Processed :
        WriteFailed(log[i]) =>
            /\ pc = "aborted"
            /\ tickers[i] \notin Range(failed)
            /\ Len(log) = i
            /\ summary = <<>>

\* C4 amended: a failed write is caught by the per-ticker handler: the ticker
\* is appended to the failed list, gets no file, and the loop goes on to the
\* later tickers and the summary.
C4_WriteFailureCaught ==
    \A i \in Processed :
        WriteFailed(log[i]) =>
            /\ log[i].status = "failed"
            /\ tickers[i] \in Range(failed)
            /\ tickers[i] \notin DOMAIN files
            /\ pc \in {"loop", "done"}
            /\ pc = "loop" => idx = Len(log) + 1
            /\ pc = "done" => Len(log) = Len(tickers)

C4_Witness ==
    /\ pc = "done"
    /\ \E i \in Processed :
        /\ WriteFailed(log[i])
        /\ i < Len(log)
        /\ log[i + 1].status = "saved"

\* C5 as claimed: once the output directory exists no failure stops the run;
\* the only exception that leaves main is the one of makedirs.
C5_OnlyFilesystemFatal == pc = "aborted" => fatal = "makedirs"

\* C9 as claimed: when the resolver fell back and every price fetch is empty,
\* the run is not aborted, the directory stays empty, and the run ends with
\* all 51 tickers of the list processed and a summary of 0 successes and 51
\* failures that lists them all.
C9_FallbackAllEmpty ==
    (source = "hardcoded" /\ \A i \in Processed : PriceEmpty(log[i])) =>
        /\ pc # "aborted"
        /\ DOMAIN files = {}
        /\ pc = "done" =>
            /\ Len(tickers) = 51
            /\ Len(log) = 51
            /\ summary = <<[success |-> 0, failed_count |-> 51, failed_list |-> tickers]>>

\* C10: after any prefix of the loop the processed tickers are the first
\* idx-1 of the list, each attempted once; success + len(failed) is their
\* number; each is either in the failed list or has a file, never both; the
\* failed list has no duplicates and keeps list order; success is the number
\* of files; the summary's two counts add up to the length of the list.
C10_Accounting ==
    pc \in {"loop", "done"} =>
        /\ Len(log) = idx - 1
        /\ \A i \in Processed : log[i].ticker = tickers[i]
        /\ success + Len(failed) = Len(log)
        /\ \A i \in Processed : (tickers[i] \in Range(failed)) # (tickers[i] \in DOMAIN files)
        /\ NoDuplicates(failed)
        /\ IsSubsequence(failed, tickers)
        /\ success = Cardinality(DOMAIN files)
        /\ pc = "done" =>
            /\ summary[1].success = success
            /\ summary[1].failed_list = failed
            /\ summary[1].success + summary[1].failed_count = Len(tickers)

C10_Witness ==
    /\ pc = "done"
    /\ success > 0
    /\ Len(failed) > 1
    /\ \E i \in Processed : WriteFailed(log[i])

----------------------------------------------------------------------------
(* Properties of the resolver (ResolverSpec)                               *)

\* C7: the returned ticker list is non-empty and has no duplicates.
C7_NonEmptyUnique ==
    rOut # <<>> => (rOut[1].tickers # <<>> /\ NoDuplicates(rOut[1].tickers))

\* the live path was taken and a repeated symbol (after trimming) was dropped
C7_Witness ==
    /\ rOut # <<>>
    /\ rOut[1].source = "wikipedia"
    /\ Len(rOut[1].tickers) = 1
    /\ Len(dropna(rResp.tables[FirstSymbolTable(rResp.tables)].cells)) = 2

\* the page is unreachable or malformed
Malformed(resp) ==
    \/ resp.kind \in {"request_error", "http_error"}
    \/ ~\E i \in 1..Len(resp.tables) : resp.tables[i].header = "Symbol"
    \/ LET first == resp.tables[FirstSymbolTable(resp.tables)]
       IN  \A k \in 1..Len(first.cells) : first.cells[k].nan

\* C8: for an unreachable or malformed page the resolver returns exactly the
\* embedded list, in its order, labelled as the fallback.
C8_FallbackExact ==
    (rOut # <<>> /\ Malformed(rResp)) =>
        rOut[1] = [tickers |-> hardcoded, source |-> "hardcoded"]

\* a Symbol table was found but it held no symbol
C8_Witness ==
    /\ rOut # <<>>
    /\ rResp.kind = "ok"
    /\ FirstSymbolTable(rResp.tables) # 0
    /\ Malformed(rResp)
    /\ rOut[1].source = "hardcoded"

----------------------------------------------------------------------------
(* Properties of the merge (DownloadSpec)                                  *)

\* the supplementary fetch returns the payload's rows, all numeric
DeliveryUsable ==
    /\ dPrice.kind = "ok"
    /\ dPrice.rows # <<>>
    /\ dSupp.status = "ok" /\ dSupp.has_data /\ dSupp.schema_ok
    /\ dSupp.records # <<>>
    /\ \A k \in 1..Len(dSupp.records) :
        /\ dSupp.records[k].DeliverableVolume.kind = "num"
        /\ dSupp.records[k].DeliverablePct.kind = "num"
        /\ dSupp.records[k].OI.kind = "num"

PriceColumns(rec) ==
    [Date |-> rec.Date, Open |-> rec.Open, High |-> rec.High, Low |-> rec.Low,
     Close |-> rec.Close, AdjClose |-> rec.AdjClose, Volume |-> rec.Volume]

DeliveryColumns(rec) ==
    [qty |-> rec.DeliverableVolume, perc |-> rec.DeliverablePct, oi |-> rec.OI]

\* out is rows, one record per row in order, each with the figures of a
\* delivery row of its date, or the missing marker when there is none
IsLeftJoin(out, rows, records) ==
    /\ Len(out) = Len(rows)
    /\ \A i \in 1..Len(rows) :
        /\ PriceColumns(out[i]) = rows[i]
        /\ LET hits == {k \in 1..Len(records) : records[k].Date = rows[i].Date}
           IN  IF hits = {}
               THEN DeliveryColumns(out[i]) = [qty |-> NA, perc |-> NA, oi |-> NA]
               ELSE \E k \in hits : DeliveryColumns(out[i]) = DeliveryColumns(records[k])

UniqueDates(records) ==
    \A j, k \in 1..Len(records) : records[j].Date = records[k].Date => j = k

\* C6 as claimed: for any non-empty delivery rows the merged records are the
\* price rows, one per row in order, with the matching figures or the marker.
C6_LeftJoinAnyDelivery ==
    (dOut # <<>> /\ DeliveryUsable) =>
        (~dOut[1].raised /\ IsLeftJoin(dOut[1].data, dPrice.rows, dSupp.records))

\* C6 amended: the same, for delivery rows with at most one row per date.
C6_LeftJoinUniqueDates ==
    (dOut # <<>> /\ DeliveryUsable /\ UniqueDates(dSupp.records)) =>
        (~dOut[1].raised /\ IsLeftJoin(dOut[1].data, dPrice.rows, dSupp.records))

\* three price rows, one delivery row for the middle date
C6_Witness ==
    /\ dOut # <<>>
    /\ DeliveryUsable
    /\ Len(dPrice.rows) = 3
    /\ Len(dSupp.records) = 1
    /\ dSupp.records[1].Date = dPrice.rows[2].Date
    /\ dSupp.records[1].DeliverableVolume = Num(0)
    /\ dOut[1].data[2].DeliverableVolume = Num(0)
    /\ dOut[1].data[1].DeliverableVolume = NA
    /\ dOut[1].data[3].OI = NA

====
